---- MODULE Spec2Model ----
(***************************************************************************)
(* State-machine model of SmartBudgetApp (src/main.py): the four           *)
(* in-memory collections, the persisted document data.json, the            *)
(* transaction form, and the handlers that mutate them.                    *)
(*                                                                         *)
(* Conventions of the model                                                *)
(*  - The type names "Доход"/"Расход" are written "Income"/"Expense" and   *)
(*    the category names are written in English, in the order of the       *)
(*    source lists.                                                        *)
(*  - An amount (a Python float) is held in hundredths as an integer:      *)
(*    12.5 is 1250.                                                        *)
(*  - A text that the code parses (an amount, a date) is the sequence of   *)
(*    its characters.  A text that the code only splits on ';' (a          *)
(*    description) is the sequence of its ';'-free segments, so "" is      *)
(*    <<"">> and "a;b" is <<"a", "b">>.  A line of a CSV file is the       *)
(*    sequence of its ';'-separated parts.                                 *)
(***************************************************************************)
EXTENDS Integers, Sequences, FiniteSets, TLC

(* Bounds of the model: the lengths the three lists may reach. *)
MaxTx == 1
MaxGoals == 1
MaxPayments == 1
(* The length the transaction list may reach under LedgerSpec. *)
MaxLedger == 2
(* The length the transaction list may reach under DrillSpec. *)
MaxDrill == 11

(***************************************************************************)
(* Text helpers.                                                           *)
(***************************************************************************)
Digits == <<"0", "1", "2", "3", "4", "5", "6", "7", "8", "9">>

DigitSet == {"0", "1", "2", "3", "4", "5", "6", "7", "8", "9"}

IsDigit(c) == c \in DigitSet

DigitValues ==
    [c \in DigitSet |->
        CASE c = "0" -> 0 [] c = "1" -> 1 [] c = "2" -> 2 [] c = "3" -> 3
          [] c = "4" -> 4 [] c = "5" -> 5 [] c = "6" -> 6 [] c = "7" -> 7
          [] c = "8" -> 8 [] c = "9" -> 9]

DigitVal(c) == DigitValues[c]

(* Whether s[from..to] are all digits, and the number they write. *)
DigitsAt(s, from, to) == \A i \in from..to : IsDigit(s[i])

RECURSIVE NumberAt(_, _, _)
NumberAt(s, from, to) ==
    IF to < from THEN 0
    ELSE 10 * NumberAt(s, from, to - 1) + DigitVal(s[to])

AllDigits(s) == DigitsAt(s, 1, Len(s))

DigitsVal(s) == NumberAt(s, 1, Len(s))

(* str.replace(',', '.') *)
ReplaceComma(s) == [i \in 1..Len(s) |-> IF s[i] = "," THEN "." ELSE s[i]]

(* str.split(sep) on a sequence of characters: the parts between the       *)
(* separators, empty parts included.                                       *)
RECURSIVE SplitOn(_, _)
SplitOn(s, sep) ==
    IF \A i \in 1..Len(s) : s[i] # sep THEN <<s>>
    ELSE LET k == CHOOSE i \in 1..Len(s) :
                      s[i] = sep /\ \A j \in 1..(i - 1) : s[j] # sep
         IN <<SubSeq(s, 1, k - 1)>> \o SplitOn(SubSeq(s, k + 1, Len(s)), sep)

(***************************************************************************)
(* float(text.replace(',', '.')): [ok, value], value in hundredths.        *)
(* The texts of the model are an optional sign, digits and at most one     *)
(* separator with at most two digits after it; any other text of the       *)
(* model raises ValueError.                                                *)
(***************************************************************************)
ParseFloat(text) ==
    LET s == ReplaceComma(text)
        neg == Len(s) > 0 /\ s[1] = "-"
        signed == Len(s) > 0 /\ s[1] \in {"-", "+"}
        body == IF signed THEN SubSeq(s, 2, Len(s)) ELSE s
        parts == SplitOn(body, ".")
        int == parts[1]
        frac == IF Len(parts) = 2 THEN parts[2] ELSE <<>>
        wellFormed == /\ Len(parts) \in {1, 2}
                      /\ AllDigits(int) /\ AllDigits(frac)
                      /\ Len(int) + Len(frac) > 0
                      /\ Len(frac) <= 2
        cents == IF Len(frac) = 0 THEN 0
                 ELSE IF Len(frac) = 1 THEN 10 * DigitsVal(frac)
                 ELSE DigitsVal(frac)
        mag == 100 * DigitsVal(int) + cents
    IN IF wellFormed
       THEN [ok |-> TRUE, value |-> IF neg THEN 0 - mag ELSE mag]
       ELSE [ok |-> FALSE, value |-> 0]

(***************************************************************************)
(* Dates.  QDate.toString("yyyy-MM-dd") writes zero-padded fields;         *)
(* datetime.strptime(text, "%Y-%m-%d") reads a four-digit year and one- or *)
(* two-digit month and day and raises ValueError on anything else.         *)
(***************************************************************************)
Pad(n, width) ==
    [i \in 1..width |->
        LET p == width - i
            pow == IF p = 0 THEN 1 ELSE IF p = 1 THEN 10
                   ELSE IF p = 2 THEN 100 ELSE 1000
        IN Digits[((n \div pow) % 10) + 1]]

QDateToString(date) ==
    Pad(date.y, 4) \o <<"-">> \o Pad(date.m, 2) \o <<"-">> \o Pad(date.d, 2)

IsLeap(y) == (y % 4 = 0 /\ y % 100 # 0) \/ y % 400 = 0

DaysInMonth(y, m) ==
    IF m = 2 THEN (IF IsLeap(y) THEN 29 ELSE 28)
    ELSE IF m \in {4, 6, 9, 11} THEN 30 ELSE 31

(* datetime.strptime(text, "%Y-%m-%d") matches the whole text against      *)
(* \d\d\d\d-(1[0-2]|0[1-9]|[1-9])-(3[01]|[12]\d|0[1-9]|[1-9]) and then       *)
(* builds the date, which raises on a day the month does not have.         *)
(* MonthLen(text) is the number of digits of the month field, 0 when the   *)
(* text does not have the shape digits-digits-digits.                      *)
MonthLen(text) ==
    LET n == Len(text)
        fits(ml) == /\ text[6 + ml] = "-"
                    /\ n - (6 + ml) \in {1, 2}
                    /\ DigitsAt(text, 6, 5 + ml)
                    /\ DigitsAt(text, 7 + ml, n)
    IN IF n < 8 \/ n > 10 THEN 0
       ELSE IF ~(DigitsAt(text, 1, 4) /\ text[5] = "-") THEN 0
       ELSE IF fits(1) THEN 1
       ELSE IF fits(2) THEN 2
       ELSE 0

DateFields(text, ml) ==
    [y |-> NumberAt(text, 1, 4),
     m |-> NumberAt(text, 6, 5 + ml),
     d |-> NumberAt(text, 7 + ml, Len(text))]

(* Whether strptime returns (TRUE) or raises ValueError (FALSE). *)
StrptimeOk(text) ==
    \E ml \in {MonthLen(text)} :
        /\ ml # 0
        /\ \E f \in {DateFields(text, ml)} :
              /\ f.y >= 1
              /\ f.m \in 1..12
              /\ f.d >= 1
              /\ f.d <= DaysInMonth(f.y, f.m)

(* The date strptime returns for a text it accepts. *)
strptime(text) == DateFields(text, MonthLen(text))

(***************************************************************************)
(* Configuration set by SmartBudgetApp.__init__.                           *)
(***************************************************************************)
budget_categories ==
    [Income |-> <<"Salary", "Freelance", "Investments", "Gifts", "Other">>,
     Expense |-> <<"Food", "Transport", "Housing", "Entertainment", "Health",
                   "Clothes", "Education", "Other">>]

TransactionTypes == {"Income", "Expense"}

Range(s) == {s[i] : i \in 1..Len(s)}

(* budget_categories.get(transaction_type, []) *)
CategoriesOf(type) ==
    IF type = "Income" THEN budget_categories.Income
    ELSE IF type = "Expense" THEN budget_categories.Expense
    ELSE <<>>

(* QDoubleValidator(0.00, 9999999.99, 2) on the four amount fields: what   *)
(* the field lets the user type.  A sign is refused because the bottom is  *)
(* 0; an empty field and a lone separator stay in the field as             *)
(* intermediate input.                                                     *)
ValidatorDecimals == 2

QDoubleValidator(text) ==
    LET parts == SplitOn(ReplaceComma(text), ".")
    IN /\ \A i \in 1..Len(text) : IsDigit(text[i]) \/ text[i] \in {",", "."}
       /\ Len(parts) <= 2
       /\ Len(parts) = 2 => Len(parts[2]) <= ValidatorDecimals

(***************************************************************************)
(* The persisted document data.json.                                       *)
(*   kind "missing"     no file                                            *)
(*   kind "unparseable" a file json.load cannot read (not JSON, empty,     *)
(*                      cut short, unreadable)                             *)
(*   kind "nonobject"   JSON whose top level is not an object              *)
(*   kind "object"      a JSON object; absent holds the names of the       *)
(*                      fields it lacks, bad the names of the fields whose *)
(*                      value is a number instead of a list or an object   *)
(***************************************************************************)
FieldNames == {"transactions", "budget_limits", "saving_goals", "regular_payments"}

PyNone == "None"
JsonNull == "null"

(* json.dump / json.load of a value that may be None *)
JsonDumpOptional(v) == IF v = PyNone THEN JsonNull ELSE v
(* A variant of JsonLoadOptional that leaves null as it is read. *)
JsonLoadOptionalKeepsNull(j) == j

JsonLoadOptional(j) == IF j = JsonNull THEN PyNone ELSE j

JsonDumpPayment(p) ==
    [name |-> p.name, amount |-> p.amount, category |-> p.category,
     frequency |-> p.frequency, last_paid |-> JsonDumpOptional(p.last_paid)]

JsonLoadPayment(j) ==
    [name |-> j.name, amount |-> j.amount, category |-> j.category,
     frequency |-> j.frequency, last_paid |-> JsonLoadOptional(j.last_paid)]

NonObjectDocument(kind) ==
    [kind |-> kind, absent |-> {}, bad |-> {}, transactions |-> <<>>,
     budget_limits |-> <<>>, saving_goals |-> <<>>, regular_payments |-> <<>>]

MissingDocument == NonObjectDocument("missing")
UnparseableDocument == NonObjectDocument("unparseable")

(* The store: the four collections of the application object.  bad names   *)
(* the collections that hold a wrongly shaped value taken from the         *)
(* document.  budget_limits, a dict, is the sequence of its items in       *)
(* insertion order.                                                        *)
EmptyStore ==
    [transactions |-> <<>>, budget_limits |-> <<>>, saving_goals |-> <<>>,
     regular_payments |-> <<>>, bad |-> {}]

(* The data dict of save_data and its json.dump. *)
Serialize(store) ==
    [kind |-> "object", absent |-> {}, bad |-> store.bad,
     transactions |-> store.transactions,
     budget_limits |-> store.budget_limits,
     saving_goals |-> store.saving_goals,
     regular_payments |->
        [i \in 1..Len(store.regular_payments) |->
            JsonDumpPayment(store.regular_payments[i])]]

(* save_data: open("data.json", "w") and json.dump, any exception caught   *)
(* and reported.  The file is emptied when it is opened, so a save that    *)
(* fails leaves it empty or cut short.                                     *)
SaveOutcomes == {"ok", "write_fails"}

(* A variant of save_data whose failure is swallowed without a dialog. *)
save_data_silent(store, outcome) ==
    IF outcome = "ok"
    THEN [doc |-> Serialize(store), reported |-> {}, save |-> "ok"]
    ELSE [doc |-> UnparseableDocument, reported |-> {}, save |-> "failed"]

(* A variant of save_data that opens data.json for appending: what it      *)
(* writes after content that cannot be read cannot be read either. *)
save_data_appending(store, outcome) ==
    [doc |-> UnparseableDocument,
     reported |-> IF outcome = "ok" THEN {} ELSE {"save_error"},
     save |-> IF outcome = "ok" THEN "ok" ELSE "failed"]

save_data(store, outcome) ==
    IF outcome = "ok"
    THEN [doc |-> Serialize(store), reported |-> {}, save |-> "ok"]
    ELSE [doc |-> UnparseableDocument, reported |-> {"save_error"},
          save |-> "failed"]

(* load_data: the store after it and what it reports.  A missing file is   *)
(* skipped; json.load raising, or data.get raising on a non-object, is     *)
(* caught before any collection is assigned; on an object each collection  *)
(* is data.get(name, default), whatever its shape.                         *)
load_data(document) ==
    IF document.kind = "missing"
    THEN [store |-> EmptyStore, reported |-> {}]
    ELSE IF document.kind \in {"unparseable", "nonobject"}
    THEN [store |-> EmptyStore, reported |-> {"load_error"}]
    ELSE [store |->
            [transactions |-> document.transactions,
             budget_limits |-> document.budget_limits,
             saving_goals |-> document.saving_goals,
             regular_payments |->
                [i \in 1..Len(document.regular_payments) |->
                    JsonLoadPayment(document.regular_payments[i])],
             bad |-> document.bad],
          reported |-> {}]

(***************************************************************************)
(* The refreshes that can raise.  update_chart and update_stats parse the  *)
(* date of every stored transaction with strptime; the table refreshes     *)
(* take len() of their collection.                                         *)
(***************************************************************************)
update_chart_raises(txs) == \E i \in 1..Len(txs) : ~StrptimeOk(txs[i].date)

update_dashboard_raises(txs) == update_chart_raises(txs)

update_all_tabs_raises(store) ==
    store.bad # {} \/ update_dashboard_raises(store.transactions)

(* init_ui builds the six tabs, each refreshing its table, then calls      *)
(* update_all_tabs. *)
init_ui_raises(store) == update_all_tabs_raises(store)

(***************************************************************************)
(* Views: what the refreshes compute from the collections.                 *)
(***************************************************************************)
(* sum(t["amount"] for t in txs if t["type"] == type), over the first n.   *)
RECURSIVE SumAmounts(_, _, _)
SumAmounts(txs, type, n) ==
    IF n = 0 THEN 0
    ELSE SumAmounts(txs, type, n - 1)
            + (IF txs[n].type = type THEN txs[n].amount ELSE 0)

(* A variant of calculate_balance that takes every transaction that is    *)
(* not an income as an expense. *)
calculate_balance_rest_is_expense(txs) ==
    LET total_income == SumAmounts(txs, "Income", Len(txs))
        total_other == SumAmounts(txs, "Expense", Len(txs))
                          + SumAmounts(txs, "Transfer", Len(txs))
    IN total_income - total_other

(* calculate_balance *)
calculate_balance(txs) ==
    LET total_income == SumAmounts(txs, "Income", Len(txs))
        total_expense == SumAmounts(txs, "Expense", Len(txs))
    IN total_income - total_expense

(* The three figures update_dashboard puts on its cards. *)
update_dashboard(txs) ==
    LET total_income == SumAmounts(txs, "Income", Len(txs))
        total_expense == SumAmounts(txs, "Expense", Len(txs))
    IN [total_income |-> total_income, total_expense |-> total_expense,
        balance |-> total_income - total_expense]

(* A variant of DictAdd that assigns where the code adds. *)
DictAddAssigning(items, key, amount) ==
    IF \E i \in 1..Len(items) : items[i].category = key
    THEN [i \in 1..Len(items) |->
            IF items[i].category = key
            THEN [category |-> key, amount |-> amount]
            ELSE items[i]]
    ELSE Append(items, [category |-> key, amount |-> amount])

(* d[key] += amount on the items of a defaultdict(float). *)
DictAdd(items, key, amount) ==
    IF \E i \in 1..Len(items) : items[i].category = key
    THEN [i \in 1..Len(items) |->
            IF items[i].category = key
            THEN [category |-> key, amount |-> items[i].amount + amount]
            ELSE items[i]]
    ELSE Append(items, [category |-> key, amount |-> amount])

(* The expense_categories dict of update_pie_charts after the first n      *)
(* transactions. *)
RECURSIVE expense_categories(_, _)
expense_categories(txs, n) ==
    IF n = 0 THEN <<>>
    ELSE LET before == expense_categories(txs, n - 1)
         IN IF txs[n].type = "Expense"
            THEN DictAdd(before, txs[n].category, txs[n].amount)
            ELSE before

(* date.strftime("%Y-%m") *)
strftime(date) == Pad(date.y, 4) \o <<"-">> \o Pad(date.m, 2)

(* Order of the characters of a month key. *)
CharCode(c) == IF c = "-" THEN 45 ELSE 48 + DigitVal(c)

(* a < b for two texts, as Python compares strings. *)
RECURSIVE TextLess(_, _, _)
TextLess(a, b, i) ==
    IF i > Len(a) THEN i <= Len(b)
    ELSE IF i > Len(b) THEN FALSE
    ELSE IF a[i] = b[i] THEN TextLess(a, b, i + 1)
    ELSE CharCode(a[i]) < CharCode(b[i])

(* months[key]["income" or "expense"] += amount on the items of the        *)
(* defaultdict of update_chart: any type other than Income goes to         *)
(* expense. *)
MonthAdd(items, key, type, amount) ==
    LET inc == IF type = "Income" THEN amount ELSE 0
        exp == IF type = "Income" THEN 0 ELSE amount
    IN IF \E i \in 1..Len(items) : items[i].month = key
       THEN [i \in 1..Len(items) |->
               IF items[i].month = key
               THEN [month |-> key, income |-> items[i].income + inc,
                     expense |-> items[i].expense + exp]
               ELSE items[i]]
       ELSE Append(items, [month |-> key, income |-> inc, expense |-> exp])

RECURSIVE months(_, _)
months(txs, n) ==
    IF n = 0 THEN <<>>
    ELSE MonthAdd(months(txs, n - 1), strftime(strptime(txs[n].date)),
                  txs[n].type, txs[n].amount)

(* sorted(months.items()): the keys are distinct, so the order is that of  *)
(* the keys. *)
RECURSIVE sorted(_)
sorted(items) ==
    IF items = <<>> THEN <<>>
    ELSE LET k == CHOOSE i \in 1..Len(items) :
                      \A j \in 1..Len(items) :
                          j # i => TextLess(items[i].month, items[j].month, 1)
             rest == [j \in 1..(Len(items) - 1) |->
                         IF j < k THEN items[j] ELSE items[j + 1]]
         IN <<items[k]>> \o sorted(rest)

(* update_chart: the series it plots, or the ValueError of strptime. *)
update_chart(txs) ==
    IF update_chart_raises(txs)
    THEN [raised |-> TRUE, series |-> <<>>]
    ELSE [raised |-> FALSE, series |-> sorted(months(txs, Len(txs)))]

(* sum(t['amount'] for t in txs if t['type'] == 'Expense' and              *)
(* t['category'] == category), over the first n. *)
RECURSIVE SpentOn(_, _, _)
SpentOn(txs, category, n) ==
    IF n = 0 THEN 0
    ELSE SpentOn(txs, category, n - 1)
            + (IF txs[n].type = "Expense" /\ txs[n].category = category
               THEN txs[n].amount ELSE 0)

(* A variant of update_budget_limits_table that also marks a category     *)
(* whose spending has reached its limit. *)
update_budget_limits_table_reached(limits, txs) ==
    [row \in 1..Len(limits) |->
        LET spent == SpentOn(txs, limits[row].category, Len(txs))
        IN [category |-> limits[row].category, limit |-> limits[row].limit,
            spent |-> spent, over |-> spent >= limits[row].limit]]

(* update_budget_limits_table: the rows of the table, over being the red   *)
(* colour of the spent cell. *)
update_budget_limits_table(limits, txs) ==
    [row \in 1..Len(limits) |->
        LET spent == SpentOn(txs, limits[row].category, Len(txs))
        IN [category |-> limits[row].category, limit |-> limits[row].limit,
            spent |-> spent, over |-> spent > limits[row].limit]]

(* update_goals_table: the progress of a goal, in hundredths of a percent, *)
(* and the band its colour stands for. *)
goal_progress(goal) ==
    IF goal.amount > 0 THEN (goal.saved * 10000) \div goal.amount ELSE 0

goal_band(progress) ==
    IF progress >= 10000 THEN "complete"
    ELSE IF progress >= 7500 THEN "near"
    ELSE "behind"

update_goals_table(goals) ==
    [row \in 1..Len(goals) |->
        [name |-> goals[row].name, amount |-> goals[row].amount,
         target_date |-> goals[row].target_date,
         progress |-> goal_progress(goals[row]),
         band |-> goal_band(goal_progress(goals[row]))]]

(* The transactions of a type and a category, in list order:                *)
(* [t for t in self.transactions if t['type'] == ... and ...]. *)
RECURSIVE OfCategory(_, _, _, _)
OfCategory(txs, type, category, n) ==
    IF n = 0 THEN <<>>
    ELSE LET before == OfCategory(txs, type, category, n - 1)
         IN IF txs[n].type = type /\ txs[n].category = category
            THEN Append(before, txs[n]) ELSE before

(* sorted(transactions, key=lambda x: x['date'], reverse=True): the sort   *)
(* is stable, so transactions of one date keep their order. *)
InsertByDate(items, t) ==
    LET later == {i \in 1..Len(items) : ~TextLess(items[i].date, t.date, 1)}
        k == Cardinality(later)
    IN SubSeq(items, 1, k) \o <<t>> \o SubSeq(items, k + 1, Len(items))

RECURSIVE SortedByDateDescending(_, _)
SortedByDateDescending(items, n) ==
    IF n = 0 THEN <<>>
    ELSE InsertByDate(SortedByDateDescending(items, n - 1), items[n])

(* The [:10] of show_category_transactions. *)
ShownTransactions == 10

(* show_category_transactions: the transactions its message box lists;     *)
(* none, with an information box, when the category has none. *)
show_category_transactions(txs, type, category) ==
    LET found == OfCategory(txs, type, category, Len(txs))
        ordered == SortedByDateDescending(found, Len(found))
    IN IF Len(ordered) <= ShownTransactions THEN ordered
       ELSE SubSeq(ordered, 1, ShownTransactions)

(* A number that orders the calendar days of dates. *)
DayOrder(date) == ((date.y * 12) + date.m) * 31 + date.d

(* a <= b for two datetimes [y, m, d, s], s being the seconds since        *)
(* midnight, as Python compares them. *)
DateTimeLessEq(a, b) ==
    DayOrder(a) < DayOrder(b) \/ (DayOrder(a) = DayOrder(b) /\ a.s <= b.s)

(* datetime.strptime(text, "%Y-%m-%d"): the date at 00:00:00. *)
Midnight(date) == [y |-> date.y, m |-> date.m, d |-> date.d, s |-> 0]

(* The periods of stats_period_combo, and the start_date of update_stats:  *)
(* now.replace(day=1), now.replace(month=1, day=1); replace keeps the      *)
(* hour, minute, second and microsecond of now. *)
Periods == {"All time", "Month", "Year"}

start_date(period, now) ==
    IF period = "Month" THEN [now EXCEPT !.d = 1]
    ELSE [now EXCEPT !.m = 1, !.d = 1]

(* The list update_stats keeps: all transactions, or those whose parsed    *)
(* date is >= start_date. *)
RECURSIVE StatsTransactions(_, _, _, _)
StatsTransactions(txs, period, now, n) ==
    IF n = 0 THEN <<>>
    ELSE LET before == StatsTransactions(txs, period, now, n - 1)
         IN IF period = "All time"
               \/ DateTimeLessEq(start_date(period, now),
                                 Midnight(strptime(txs[n].date)))
            THEN Append(before, txs[n]) ELSE before

(* income_by_day[date] += amount, expense_by_day[date] += amount: any type *)
(* other than Income goes to the expenses. *)
DayAdd(items, key, type, amount) ==
    LET inc == IF type = "Income" THEN amount ELSE 0
        exp == IF type = "Income" THEN 0 ELSE amount
    IN IF \E i \in 1..Len(items) : items[i].date = key
       THEN [i \in 1..Len(items) |->
               IF items[i].date = key
               THEN [date |-> key, income |-> items[i].income + inc,
                     expense |-> items[i].expense + exp]
               ELSE items[i]]
       ELSE Append(items, [date |-> key, income |-> inc, expense |-> exp])

RECURSIVE by_day(_, _)
by_day(txs, n) ==
    IF n = 0 THEN <<>>
    ELSE DayAdd(by_day(txs, n - 1), Midnight(strptime(txs[n].date)),
                txs[n].type, txs[n].amount)

(* sorted(set(income_by_day) | set(expense_by_day)): the dates are         *)
(* distinct. *)
RECURSIVE SortedDays(_)
SortedDays(items) ==
    IF items = <<>> THEN <<>>
    ELSE LET k == CHOOSE i \in 1..Len(items) :
                      \A j \in 1..Len(items) :
                          DateTimeLessEq(items[i].date, items[j].date)
             rest == [j \in 1..(Len(items) - 1) |->
                         IF j < k THEN items[j] ELSE items[j + 1]]
         IN <<items[k]>> \o SortedDays(rest)

(* update_stats: the daily series it plots, or the ValueError of strptime. *)
update_stats(txs, period, now) ==
    IF update_chart_raises(txs)
    THEN [raised |-> TRUE, series |-> <<>>]
    ELSE LET kept == StatsTransactions(txs, period, now, Len(txs))
         IN [raised |-> FALSE, series |-> SortedDays(by_day(kept, Len(kept)))]

(***************************************************************************)
(* State.                                                                  *)
(***************************************************************************)
VARIABLES
    transactions,            \* self.transactions
    budget_limits,           \* self.budget_limits, items in insertion order
    saving_goals,            \* self.saving_goals
    regular_payments,        \* self.regular_payments
    badShape,                \* collections holding a wrongly shaped value
    doc,                     \* data.json
    budget_limits_table,     \* the rows self.budget_limits_table shows
    transaction_type_combo,  \* current text of the type selector
    category_combo,          \* items of the category selector
    running,                 \* the process is alive
    unhandled,               \* the last operation ended in an unhandled exception
    reported                 \* what the last operation reported to the user

vars == <<transactions, budget_limits, saving_goals, regular_payments, badShape,
          doc, budget_limits_table, transaction_type_combo, category_combo,
          running, unhandled, reported>>

Store ==
    [transactions |-> transactions, budget_limits |-> budget_limits,
     saving_goals |-> saving_goals, regular_payments |-> regular_payments,
     bad |-> badShape]

(***************************************************************************)
(* Inputs.                                                                 *)
(***************************************************************************)
AmountTexts == {<<>>, <<"2", ",", "5">>, <<"-", "5">>, <<"a">>}

(* What the validated amount fields can hold. *)
FormAmountTexts == {t \in AmountTexts : QDoubleValidator(t)}

TransactionAmountTexts == FormAmountTexts
LimitAmountTexts == FormAmountTexts
GoalAmountTexts == FormAmountTexts
PaymentAmountTexts == FormAmountTexts

(* QDate values of the date editors and of QDate.currentDate(). *)
Dates == {[y |-> 2024, m |-> 1, d |-> 5]}

Descriptions == {<<"">>}
Names == {"n"}
Frequencies == {"Monthly"}

(* Index of the item the user selects in a selector. *)
Picks == {1}

(* Amounts QInputDialog.getDouble(value 0, min 0, max 10000000, 2          *)
(* decimals) can return. *)
QuickAmounts == {150}

(* Documents found at startup. *)
InitialDocuments ==
    { MissingDocument,
      UnparseableDocument,
      NonObjectDocument("nonobject"),
      [NonObjectDocument("object") EXCEPT
          !.absent = FieldNames \ {"transactions"}, !.bad = {"transactions"}],
      [NonObjectDocument("object") EXCEPT
          !.absent = FieldNames \ {"budget_limits"},
          !.budget_limits = <<[category |-> "Food", limit |-> 250]>>] }

(* Lines of the files given to import_from_csv. *)
HeaderLine == <<<<"D">>, "Type", "Category", <<"S">>, "Description">>

March1 == <<"2", "0", "2", "4", "-", "0", "3", "-", "0", "1">>

GoodLine == <<March1, "Expense", "Transport", <<"9", "9", ",", "5", "0">>, "Bus">>
BadDateLine ==
    <<<<"0", "1", ".", "0", "3", ".", "2", "0", "2", "4">>, "Income", "Salary",
      <<"5">>, "x">>
NegativeLine == <<March1, "Expense", "Bogus", <<"-", "5">>, "">>
BadAmountLine == <<March1, "Expense", "Food", <<"a">>, "">>
ShortLine == <<March1, "Expense", "Food", <<"5">>>>

FileLines ==
    { <<>>,
      <<HeaderLine>>,
      <<HeaderLine, GoodLine>>,
      <<HeaderLine, BadDateLine>>,
      <<HeaderLine, NegativeLine>>,
      <<HeaderLine, BadAmountLine, ShortLine, GoodLine>>,
      <<HeaderLine, GoodLine, NegativeLine>> }

(* A file: the lines read from it, and whether the read after them raises *)
(* (a decoding or an I/O error) instead of finding the end of the file.    *)
FailingFileLines == { <<>>, <<HeaderLine, GoodLine>> }

Files ==
    { [lines |-> ls, fails |-> FALSE] : ls \in FileLines }
        \cup { [lines |-> ls, fails |-> TRUE] : ls \in FailingFileLines }

(* The clock at a call of update_stats: the first day of a month in the    *)
(* afternoon and at midnight, and a day of an earlier month. *)
Nows ==
    { [y |-> 2024, m |-> 3, d |-> 1, s |-> 52200],
      [y |-> 2024, m |-> 3, d |-> 1, s |-> 0],
      [y |-> 2024, m |-> 1, d |-> 5, s |-> 0] }

(* Further files, read under LedgerSpec: a row whose type is neither of    *)
(* the two, and a valid row after a row with a bad date. *)
OddTypeLine == <<March1, "Transfer", "Food", <<"5">>, "">>

LedgerFileLines ==
    { <<HeaderLine, OddTypeLine>>,
      <<HeaderLine, BadDateLine, GoodLine>> }

LedgerFiles ==
    Files \cup { [lines |-> ls, fails |-> FALSE] : ls \in LedgerFileLines }

AllFileLines == FileLines \cup LedgerFileLines

(***************************************************************************)
(* Construction: __init__ = load_data, init_ui.  An exception of init_ui   *)
(* leaves __init__ and ends the process.                                   *)
(***************************************************************************)
Start(document) ==
    LET l == load_data(document)
        raised == init_ui_raises(l.store)
    IN [store |-> l.store, reported |-> l.reported, running |-> ~raised,
        unhandled |-> raised,
        table |-> IF l.store.bad # {} THEN <<>>
                  ELSE update_budget_limits_table(l.store.budget_limits,
                                                  l.store.transactions)]

Init ==
    \E document \in InitialDocuments :
        LET s == Start(document)
        IN /\ transactions = s.store.transactions
           /\ budget_limits = s.store.budget_limits
           /\ saving_goals = s.store.saving_goals
           /\ regular_payments = s.store.regular_payments
           /\ badShape = s.store.bad
           /\ doc = document
           /\ budget_limits_table = s.table
           /\ transaction_type_combo = "Income"
           /\ category_combo = <<>>
           /\ running = s.running
           /\ unhandled = s.unhandled
           /\ reported = s.reported

(* The window is closed, or the process has died, and the program is       *)
(* started again on the document as it is.                                 *)
Restart ==
    LET s == Start(doc)
    IN /\ transactions' = s.store.transactions
       /\ budget_limits' = s.store.budget_limits
       /\ saving_goals' = s.store.saving_goals
       /\ regular_payments' = s.store.regular_payments
       /\ badShape' = s.store.bad
       /\ budget_limits_table' = s.table
       /\ transaction_type_combo' = "Income"
       /\ category_combo' = <<>>
       /\ running' = s.running
       /\ unhandled' = s.unhandled
       /\ reported' = s.reported
       /\ UNCHANGED doc

(***************************************************************************)
(* Handlers.  Each handler is an operator from the application (its store, *)
(* the document, the two selectors of the transaction form) and the        *)
(* handler's inputs to its result: the store and the document it leaves,   *)
(* what it reports, and whether it raised an exception nothing catches.    *)
(***************************************************************************)
App ==
    [store |-> Store, doc |-> doc, type |-> transaction_type_combo,
     categories |-> category_combo]

Result(store, document, messages, raised) ==
    [store |-> store, doc |-> document, reported |-> messages, raised |-> raised,
     refreshes |-> FALSE]

(* The result of a handler that calls update_budget_limits_table, by       *)
(* itself or in update_all_tabs, after its save. *)
Refreshing(r) == [r EXCEPT !.refreshes = TRUE]

(* Whether the handler with result r reached that call: update_dashboard,  *)
(* which update_all_tabs calls first, did not raise. *)
Refreshed(r) == r.refreshes /\ ~r.raised /\ "import_error" \notin r.reported

Min(a, b) == IF a <= b THEN a ELSE b

(* currentText() of a selector holding items, the user having selected the *)
(* item at index pick; "" when the selector is empty. *)
CurrentText(items, pick) ==
    IF items = <<>> THEN "" ELSE items[Min(pick, Len(items))]

(* The warning dialog of a form whose amount text does not parse, then     *)
(* return. *)
Rejected(app) == Result(app.store, app.doc, {"amount_error"}, FALSE)

(* A handler that mutated the store to store: save_data, then its          *)
(* refreshes, which raise or not, then its notification. *)
Saved(store, outcome, raised) ==
    LET saved == save_data(store, outcome)
    IN Result(store, saved.doc,
              saved.reported \cup (IF raised THEN {} ELSE {"notification"}),
              raised)

AddTransactionInputs ==
    [text : TransactionAmountTexts, date : Dates, description : Descriptions,
     pick : Picks, outcome : SaveOutcomes]

add_transaction(app, in) ==
    LET category == CurrentText(app.categories, in.pick)
        amount == ParseFloat(in.text)
        transaction ==
            [type |-> app.type, category |-> category, amount |-> amount.value,
             date |-> QDateToString(in.date), description |-> in.description]
        appended == Append(app.store.transactions, transaction)
    IN IF ~amount.ok
       THEN Rejected(app)
       ELSE Saved([app.store EXCEPT !.transactions = appended], in.outcome,
                  update_dashboard_raises(appended))

(* A variant of DictSet that adds an item whether or not the key is there. *)
DictSetAppending(items, key, value) ==
    Append(items, [category |-> key, limit |-> value])

(* dict[key] = value on the items of a dict. *)
DictSet(items, key, value) ==
    IF \E i \in 1..Len(items) : items[i].category = key
    THEN [i \in 1..Len(items) |->
            IF items[i].category = key
            THEN [category |-> key, limit |-> value] ELSE items[i]]
    ELSE Append(items, [category |-> key, limit |-> value])

SetBudgetLimitInputs ==
    [text : LimitAmountTexts, pick : Picks, outcome : SaveOutcomes]

(* A variant of set_budget_limit that takes an unparseable text as 0. *)
set_budget_limit_defaulting(app, in) ==
    LET category == CurrentText(budget_categories.Expense, in.pick)
        limit == ParseFloat(in.text)
        limits == DictSet(app.store.budget_limits, category, limit.value)
    IN Refreshing(Saved([app.store EXCEPT !.budget_limits = limits], in.outcome,
                        FALSE))

set_budget_limit(app, in) ==
    LET category == CurrentText(budget_categories.Expense, in.pick)
        limit == ParseFloat(in.text)
        limits == DictSet(app.store.budget_limits, category, limit.value)
    IN IF ~limit.ok
       THEN Rejected(app)
       ELSE Refreshing(Saved([app.store EXCEPT !.budget_limits = limits],
                             in.outcome, FALSE))

AddSavingGoalInputs ==
    [name : Names, text : GoalAmountTexts, date : Dates, outcome : SaveOutcomes]

(* A variant of add_saving_goal that creates the goal fully saved. *)
add_saving_goal_saved(app, in) ==
    LET amount == ParseFloat(in.text)
        goal == [name |-> in.name, amount |-> amount.value,
                 target_date |-> QDateToString(in.date), saved |-> amount.value]
        goals == Append(app.store.saving_goals, goal)
    IN IF ~amount.ok
       THEN Rejected(app)
       ELSE Saved([app.store EXCEPT !.saving_goals = goals], in.outcome, FALSE)

add_saving_goal(app, in) ==
    LET amount == ParseFloat(in.text)
        goal == [name |-> in.name, amount |-> amount.value,
                 target_date |-> QDateToString(in.date), saved |-> 0]
        goals == Append(app.store.saving_goals, goal)
    IN IF ~amount.ok
       THEN Rejected(app)
       ELSE Saved([app.store EXCEPT !.saving_goals = goals], in.outcome, FALSE)

AddRegularPaymentInputs ==
    [name : Names, text : PaymentAmountTexts, pick : Picks,
     frequency : Frequencies, outcome : SaveOutcomes]

(* A variant of add_regular_payment that creates the payment as already    *)
(* paid. *)
add_regular_payment_paid(app, in) ==
    LET amount == ParseFloat(in.text)
        payment == [name |-> in.name, amount |-> amount.value,
                    category |-> CurrentText(budget_categories.Expense, in.pick),
                    frequency |-> in.frequency, last_paid |-> "2024-01-05"]
        payments == Append(app.store.regular_payments, payment)
    IN IF ~amount.ok
       THEN Rejected(app)
       ELSE Saved([app.store EXCEPT !.regular_payments = payments], in.outcome,
                  FALSE)

add_regular_payment(app, in) ==
    LET amount == ParseFloat(in.text)
        payment == [name |-> in.name, amount |-> amount.value,
                    category |-> CurrentText(budget_categories.Expense, in.pick),
                    frequency |-> in.frequency, last_paid |-> PyNone]
        payments == Append(app.store.regular_payments, payment)
    IN IF ~amount.ok
       THEN Rejected(app)
       ELSE Saved([app.store EXCEPT !.regular_payments = payments], in.outcome,
                  FALSE)

(* quick_add_income and quick_add_expense: two dialogs, either of which    *)
(* can be cancelled (ok = FALSE: return, nothing done); then append,       *)
(* save_data, update_all_tabs. *)
QuickAddInputs ==
    [ok : BOOLEAN, pick : Picks, amount : QuickAmounts, date : Dates,
     outcome : SaveOutcomes]

(* A variant of quick_add that puts the transaction at the head of the     *)
(* list. *)
quick_add_prepending(app, in, type, description) ==
    LET transaction ==
            [type |-> type,
             category |-> CurrentText(CategoriesOf(type), in.pick),
             amount |-> in.amount, date |-> QDateToString(in.date),
             description |-> description]
        store == [app.store EXCEPT
                     !.transactions = <<transaction>> \o app.store.transactions]
    IN Refreshing(Saved(store, in.outcome, update_all_tabs_raises(store)))

quick_add(app, in, type, description) ==
    LET transaction ==
            [type |-> type,
             category |-> CurrentText(CategoriesOf(type), in.pick),
             amount |-> in.amount, date |-> QDateToString(in.date),
             description |-> description]
        store == [app.store EXCEPT
                     !.transactions = Append(app.store.transactions, transaction)]
    IN Refreshing(Saved(store, in.outcome, update_all_tabs_raises(store)))

quick_add_income(app, in) == quick_add(app, in, "Income", <<"Quick income">>)

quick_add_expense(app, in) == quick_add(app, in, "Expense", <<"Quick expense">>)

(* The loop body of import_from_csv over lines already read: a line with   *)
(* fewer than 5 parts, or whose 4th part does not parse, is skipped; any   *)
(* other line becomes a transaction from its first five parts. *)
RECURSIVE ImportLines(_)
ImportLines(lines) ==
    IF lines = <<>> THEN <<>>
    ELSE LET parts == Head(lines)
         IN IF Len(parts) < 5 \/ ~ParseFloat(parts[4]).ok
            THEN ImportLines(Tail(lines))
            ELSE <<[type |-> parts[2], category |-> parts[3],
                    amount |-> ParseFloat(parts[4]).value, date |-> parts[1],
                    description |-> <<parts[5]>>]>>
                 \o ImportLines(Tail(lines))

(* The counter imported of the same loop: one more for each line that     *)
(* becomes a transaction. *)
RECURSIVE ImportCount(_)
ImportCount(lines) ==
    IF lines = <<>> THEN 0
    ELSE LET parts == Head(lines)
         IN IF Len(parts) < 5 \/ ~ParseFloat(parts[4]).ok
            THEN ImportCount(Tail(lines))
            ELSE ImportCount(Tail(lines)) + 1

(* The count the notification of import_from_csv shows for a file. *)
imported_count(file) == ImportCount(Tail(file.lines))

(* The transactions the loop makes of each file of the model, its first    *)
(* line set aside by next(f); none when next(f) raises on an empty file.   *)
ImportedRows ==
    [ls \in AllFileLines |-> IF ls = <<>> THEN <<>> ELSE ImportLines(Tail(ls))]

(* The same for any file. *)
import_rows(lines) ==
    IF lines \in AllFileLines THEN ImportedRows[lines]
    ELSE IF lines = <<>> THEN <<>> ELSE ImportLines(Tail(lines))

(* import_from_csv on a chosen file.  Everything is inside one try: an     *)
(* exception of next(f) (an empty file, a failed read), of a later read or *)
(* of update_all_tabs ends in the error dialog, with whatever was appended *)
(* before it still appended.  The outcome of the save is an input only     *)
(* where the save is reached. *)
ImportInputs ==
    { in \in [file : Files, outcome : SaveOutcomes] :
        (in.file.fails \/ in.file.lines = <<>>) => in.outcome = "ok" }

import_from_csv(app, in) ==
    LET headerRaises == in.file.lines = <<>>
        imported == import_rows(in.file.lines)
        store == [app.store EXCEPT
                     !.transactions = app.store.transactions \o imported]
        saved == save_data(store, in.outcome)
    IN IF headerRaises \/ in.file.fails
       THEN Result(store, app.doc, {"import_error"}, FALSE)
       ELSE Refreshing(Result(store, saved.doc,
                              saved.reported \cup
                                 (IF update_all_tabs_raises(store)
                                  THEN {"import_error"} ELSE {"notification"}),
                              FALSE))

(* f"{n}" of a natural number. *)
RECURSIVE NaturalText(_)
NaturalText(n) ==
    IF n < 10 THEN <<Digits[n + 1]>>
    ELSE Append(NaturalText(n \div 10), Digits[(n % 10) + 1])

(* f"{amount:.2f}" of an amount in hundredths. *)
FormatAmount(amount) ==
    LET mag == IF amount < 0 THEN 0 - amount ELSE amount
    IN (IF amount < 0 THEN <<"-">> ELSE <<>>)
          \o NaturalText(mag \div 100) \o <<".">> \o Pad(mag % 100, 2)

(* The line export_to_csv writes for a transaction, as the parts a split   *)
(* on ';' finds in it: the description contributes one part for each of    *)
(* its segments. *)
ExportLine(t) ==
    <<t.date, t.type, t.category, FormatAmount(t.amount)>> \o t.description

ExportInputs == [outcome : SaveOutcomes]

(* A variant of export_to_csv that writes no header line. *)
export_to_csv_headless(app, in) ==
    LET txs == app.store.transactions
        lines == [i \in 1..Len(txs) |-> ExportLine(txs[i])]
    IN IF in.outcome = "ok"
       THEN [store |-> app.store, doc |-> app.doc, reported |-> {"exported"},
             raised |-> FALSE, refreshes |-> FALSE, file |-> lines]
       ELSE [store |-> app.store, doc |-> app.doc,
             reported |-> {"export_error"}, raised |-> FALSE,
             refreshes |-> FALSE, file |-> <<>>]

(* export_to_csv: the header, then a line for each transaction; file holds *)
(* the lines of the file it leaves.  A failure of open or write is caught  *)
(* and reported. *)
export_to_csv(app, in) ==
    LET txs == app.store.transactions
        lines == <<HeaderLine>> \o [i \in 1..Len(txs) |-> ExportLine(txs[i])]
    IN IF in.outcome = "ok"
       THEN [store |-> app.store, doc |-> app.doc, reported |-> {"exported"},
             raised |-> FALSE, refreshes |-> FALSE, file |-> lines]
       ELSE [store |-> app.store, doc |-> app.doc,
             reported |-> {"export_error"}, raised |-> FALSE,
             refreshes |-> FALSE, file |-> <<>>]

(***************************************************************************)
(* Actions: a handler runs on inputs the user or the environment chooses.  *)
(***************************************************************************)
WithinBounds(store) ==
    /\ Len(store.transactions) <= MaxTx
    /\ Len(store.saving_goals) <= MaxGoals
    /\ Len(store.regular_payments) <= MaxPayments

(* The inputs of a handler with the save succeeding, and the same inputs   *)
(* with the save failing. *)
SaveOk(inputs) == {in \in inputs : in.outcome = "ok"}

SaveFailing(in) == [in EXCEPT !.outcome = "write_fails"]

(* The handler of a slot finishes with result r.  An exception that nothing *)
(* catches either ends the process (PyQt5 from 5.5 on aborts) or only      *)
(* abandons the handler (earlier PyQt5). *)
Finish(r) ==
    /\ transactions' = r.store.transactions
    /\ budget_limits' = r.store.budget_limits
    /\ saving_goals' = r.store.saving_goals
    /\ regular_payments' = r.store.regular_payments
    /\ badShape' = r.store.bad
    /\ doc' = r.doc
    /\ budget_limits_table' =
          IF Refreshed(r)
          THEN update_budget_limits_table(r.store.budget_limits,
                                          r.store.transactions)
          ELSE budget_limits_table
    /\ reported' = r.reported
    /\ unhandled' = r.raised
    /\ \E dies \in (IF r.raised THEN BOOLEAN ELSE {FALSE}) : running' = ~dies
    /\ UNCHANGED <<transaction_type_combo, category_combo>>

Ends(r) == WithinBounds(r.store) /\ Finish(r)

OtherType(type) == IF type = "Income" THEN "Expense" ELSE "Income"

(* The user changes the type selector; its currentTextChanged signal runs  *)
(* update_categories, which refills the category selector. *)
update_categories ==
    /\ running
    /\ transaction_type_combo' = OtherType(transaction_type_combo)
    /\ category_combo' = CategoriesOf(transaction_type_combo')
    /\ reported' = {}
    /\ unhandled' = FALSE
    /\ UNCHANGED <<transactions, budget_limits, saving_goals, regular_payments,
                   badShape, doc, budget_limits_table, running>>

AddTransaction ==
    /\ running
    /\ \E in \in AddTransactionInputs :
          \E r \in {add_transaction(App, in)} : Ends(r)

SetBudgetLimit ==
    /\ running
    /\ \E in \in SetBudgetLimitInputs :
          \E r \in {set_budget_limit(App, in)} : Ends(r)

AddSavingGoal ==
    /\ running
    /\ \E in \in AddSavingGoalInputs :
          \E r \in {add_saving_goal(App, in)} : Ends(r)

AddRegularPayment ==
    /\ running
    /\ \E in \in AddRegularPaymentInputs :
          \E r \in {add_regular_payment(App, in)} : Ends(r)

QuickAddIncome ==
    /\ running
    /\ \E in \in QuickAddInputs :
          IF in.ok THEN \E r \in {quick_add_income(App, in)} : Ends(r)
          ELSE UNCHANGED vars

QuickAddExpense ==
    /\ running
    /\ \E in \in QuickAddInputs :
          IF in.ok THEN \E r \in {quick_add_expense(App, in)} : Ends(r)
          ELSE UNCHANGED vars

(* chosen = FALSE: the file dialog is cancelled. *)
ImportFromCsv ==
    /\ running
    /\ \E chosen \in BOOLEAN :
          IF chosen
          THEN \E in \in ImportInputs :
                  \E r \in {import_from_csv(App, in)} : Ends(r)
          ELSE UNCHANGED vars

Next ==
    \/ Restart
    \/ update_categories
    \/ AddTransaction
    \/ SetBudgetLimit
    \/ AddSavingGoal
    \/ AddRegularPayment
    \/ QuickAddIncome
    \/ QuickAddExpense
    \/ ImportFromCsv

Spec == Init /\ [][Next]_vars

(***************************************************************************)
(* LedgerSpec: the handlers that record transactions, with the further     *)
(* files and the saves succeeding, the list growing to MaxLedger.          *)
(***************************************************************************)
LedgerEnds(r) == Len(r.store.transactions) <= MaxLedger /\ Finish(r)

LedgerImportInputs ==
    { in \in [file : LedgerFiles, outcome : SaveOutcomes] : in.outcome = "ok" }

LedgerAddTransaction ==
    /\ running
    /\ \E in \in SaveOk(AddTransactionInputs) :
          \E r \in {add_transaction(App, in)} : LedgerEnds(r)

LedgerQuickAddIncome ==
    /\ running
    /\ \E in \in SaveOk(QuickAddInputs) :
          in.ok /\ \E r \in {quick_add_income(App, in)} : LedgerEnds(r)

LedgerQuickAddExpense ==
    /\ running
    /\ \E in \in SaveOk(QuickAddInputs) :
          in.ok /\ \E r \in {quick_add_expense(App, in)} : LedgerEnds(r)

LedgerImportFromCsv ==
    /\ running
    /\ \E in \in LedgerImportInputs :
          \E r \in {import_from_csv(App, in)} : LedgerEnds(r)

LedgerNext ==
    \/ Restart
    \/ update_categories
    \/ LedgerAddTransaction
    \/ LedgerQuickAddIncome
    \/ LedgerQuickAddExpense
    \/ LedgerImportFromCsv

LedgerSpec == Init /\ [][LedgerNext]_vars

(***************************************************************************)
(* The query and refresh operations.  Each reads the collections, fills    *)
(* its widgets and assigns no attribute of the application object nor      *)
(* opens data.json: the result carries the store and the document as the   *)
(* operation leaves them, what it computed, and whether it raised.         *)
(***************************************************************************)
Queries ==
    {"update_dashboard", "update_chart", "update_pie_charts",
     "update_budget_limits_table", "update_stats", "update_goals_table",
     "update_payments_table", "calculate_balance", "show_category_transactions"}

QueryInputs == [period : Periods, now : Nows, type : TransactionTypes, pick : Picks]

(* update_payments_table: the rows of the table. *)
update_payments_table(payments) ==
    [row \in 1..Len(payments) |->
        [name |-> payments[row].name, amount |-> payments[row].amount,
         category |-> payments[row].category,
         frequency |-> payments[row].frequency]]

QueryValue(app, q, in) ==
    LET txs == app.store.transactions
    IN CASE q = "update_dashboard" -> update_dashboard(txs)
         [] q = "update_chart" -> update_chart(txs).series
         [] q = "update_pie_charts" -> expense_categories(txs, Len(txs))
         [] q = "update_budget_limits_table" ->
                update_budget_limits_table(app.store.budget_limits, txs)
         [] q = "update_stats" -> update_stats(txs, in.period, in.now).series
         [] q = "update_goals_table" -> update_goals_table(app.store.saving_goals)
         [] q = "update_payments_table" ->
                update_payments_table(app.store.regular_payments)
         [] q = "calculate_balance" -> calculate_balance(txs)
         [] q = "show_category_transactions" ->
                show_category_transactions(
                    txs, in.type, CurrentText(CategoriesOf(in.type), in.pick))

(* A variant of query whose operation also saves the collections. *)
query_saving(app, q, in) ==
    [store |-> app.store, doc |-> Serialize(app.store),
     value |-> QueryValue(app, q, in),
     raised |-> q \in {"update_dashboard", "update_chart", "update_stats"}
                   /\ update_chart_raises(app.store.transactions)]

query(app, q, in) ==
    [store |-> app.store, doc |-> app.doc,
     value |-> QueryValue(app, q, in),
     raised |-> q \in {"update_dashboard", "update_chart", "update_stats"}
                   /\ update_chart_raises(app.store.transactions)]

(***************************************************************************)
(* PaymentSpec: the regular payments beside the limits, the goals and the  *)
(* quick additions, the saves succeeding or failing.                       *)
(***************************************************************************)
PaymentNext ==
    \/ Restart
    \/ SetBudgetLimit
    \/ AddSavingGoal
    \/ AddRegularPayment
    \/ QuickAddIncome
    \/ QuickAddExpense

PaymentSpec == Init /\ [][PaymentNext]_vars

(***************************************************************************)
(* ExchangeSpec: transactions recorded through the form with descriptions  *)
(* with and without a ';', exported, and the exported file imported, the   *)
(* saves succeeding.                                                       *)
(***************************************************************************)
ExchangeDescriptions == {<<"">>, <<"a", "b">>}

ExchangeAddInputs ==
    [text : TransactionAmountTexts, date : Dates,
     description : ExchangeDescriptions, pick : Picks, outcome : {"ok"}]

(* The file export_to_csv writes from the current list, chosen in the      *)
(* file dialog of import_from_csv. *)
ExportedFile == [lines |-> export_to_csv(App, [outcome |-> "ok"]).file, fails |-> FALSE]

ExchangeAddTransaction ==
    /\ running
    /\ \E in \in ExchangeAddInputs :
          \E r \in {add_transaction(App, in)} : LedgerEnds(r)

ExchangeExportToCsv ==
    /\ running
    /\ \E in \in ExportInputs :
          \E r \in {export_to_csv(App, in)} : Finish(r)

ExchangeImportFromCsv ==
    /\ running
    /\ \E r \in {import_from_csv(App, [file |-> ExportedFile, outcome |-> "ok"])} :
          LedgerEnds(r)

ExchangeNext ==
    \/ Restart
    \/ update_categories
    \/ ExchangeAddTransaction
    \/ ExchangeExportToCsv
    \/ ExchangeImportFromCsv

ExchangeSpec == Init /\ [][ExchangeNext]_vars

(***************************************************************************)
(* DrillSpec: a long list of transactions of one type and one category,    *)
(* recorded by the quick income on two days, the saves succeeding.         *)
(***************************************************************************)
DrillDates == {[y |-> 2024, m |-> 1, d |-> 5], [y |-> 2024, m |-> 2, d |-> 5]}

DrillInputs ==
    [ok : {TRUE}, pick : Picks, amount : QuickAmounts, date : DrillDates,
     outcome : {"ok"}]

DrillQuickAddIncome ==
    /\ running
    /\ \E in \in DrillInputs :
          \E r \in {quick_add_income(App, in)} :
              Len(r.store.transactions) <= MaxDrill /\ Finish(r)

DrillNext ==
    \/ Restart
    \/ DrillQuickAddIncome

DrillSpec == Init /\ [][DrillNext]_vars

(***************************************************************************)
(* PlanSpec: the budget limits and the saving goals, with limits of three  *)
(* amounts on two categories, goals of amount 0 and above, the quick       *)
(* expense that spends on the first category, and the saves succeeding.    *)
(***************************************************************************)
PlanLimitTexts ==
    {t \in {<<>>, <<"1">>, <<"1", ",", "5">>, <<"2", ",", "5">>, <<"3">>} :
        QDoubleValidator(t)}

PlanLimitInputs == [text : PlanLimitTexts, pick : {1, 2}, outcome : {"ok"}]

PlanGoalTexts ==
    {t \in {<<>>, <<"0">>, <<"2", ",", "5">>} : QDoubleValidator(t)}

PlanGoalInputs ==
    [name : Names, text : PlanGoalTexts, date : Dates, outcome : {"ok"}]

PlanEnds(r) ==
    /\ Len(r.store.transactions) <= MaxLedger
    /\ Len(r.store.saving_goals) <= MaxGoals
    /\ Finish(r)

PlanSetBudgetLimit ==
    /\ running
    /\ \E in \in PlanLimitInputs :
          \E r \in {set_budget_limit(App, in)} : PlanEnds(r)

PlanAddSavingGoal ==
    /\ running
    /\ \E in \in PlanGoalInputs :
          \E r \in {add_saving_goal(App, in)} : PlanEnds(r)

PlanQuickAddExpense ==
    /\ running
    /\ \E in \in SaveOk(QuickAddInputs) :
          in.ok /\ \E r \in {quick_add_expense(App, in)} : PlanEnds(r)

PlanNext ==
    \/ Restart
    \/ PlanSetBudgetLimit
    \/ PlanAddSavingGoal
    \/ PlanQuickAddExpense

PlanSpec == Init /\ [][PlanNext]_vars

(***************************************************************************)
(* Properties.                                                             *)
(***************************************************************************)
(* A transaction whose category is in the list of its type. *)
AllowedCategory(t) == t.category \in Range(CategoriesOf(t.type))

(* C1: in a running application, each of add_transaction,                  *)
(* set_budget_limit, add_saving_goal and add_regular_payment, given an     *)
(* amount text that does not parse, ends with the amount error reported,   *)
(* no exception, and the four collections and the document exactly as      *)
(* they were before the call.                                              *)
C1_UnparseableAmountChangesNothing ==
    running =>
        /\ \A in \in AddTransactionInputs :
              ~ParseFloat(in.text).ok =>
                  add_transaction(App, in)
                      = Result(Store, doc, {"amount_error"}, FALSE)
        /\ \A in \in SetBudgetLimitInputs :
              ~ParseFloat(in.text).ok =>
                  set_budget_limit(App, in)
                      = Result(Store, doc, {"amount_error"}, FALSE)
        /\ \A in \in AddSavingGoalInputs :
              ~ParseFloat(in.text).ok =>
                  add_saving_goal(App, in)
                      = Result(Store, doc, {"amount_error"}, FALSE)
        /\ \A in \in AddRegularPaymentInputs :
              ~ParseFloat(in.text).ok =>
                  add_regular_payment(App, in)
                      = Result(Store, doc, {"amount_error"}, FALSE)

(* C1 witness: a form has just been rejected for its amount while all four *)
(* collections hold something and the document is the saved store.         *)
C1_Witness ==
    /\ running
    /\ reported = {"amount_error"}
    /\ transactions # <<>> /\ budget_limits # <<>>
    /\ saving_goals # <<>> /\ regular_payments # <<>>
    /\ doc = Serialize(Store)
    /\ \E in \in SetBudgetLimitInputs : ~ParseFloat(in.text).ok

(* C2: no step records (appends to the transaction sequence) a             *)
(* transaction whose category is not in the allowed list of its type:      *)
(* such a recording is refused and the length of the sequence stays.       *)
C2_DisallowedCategoryIsNotRecorded ==
    [][\A i \in 1..Len(transactions') :
          i > Len(transactions) => AllowedCategory(transactions'[i])]_vars

(* C3: every stored transaction has a type that is a key of                *)
(* budget_categories and a category of the list of that type.              *)
C3_TypeAndCategoryAreValid ==
    \A i \in 1..Len(transactions) :
        /\ transactions[i].type \in TransactionTypes
        /\ AllowedCategory(transactions[i])

(* C4: the amount of every stored transaction is non-negative.             *)
C4_AmountsAreNonNegative ==
    \A i \in 1..Len(transactions) : transactions[i].amount >= 0

(* C5: the date of every stored transaction is a valid calendar date       *)
(* written in the fixed-width form YYYY-MM-DD.                             *)
C5_DatesAreIsoDates ==
    \A i \in 1..Len(transactions) :
        /\ StrptimeOk(transactions[i].date)
        /\ transactions[i].date = QDateToString(strptime(transactions[i].date))

(* The results the seven mutating handlers can end with in this state. *)
HandlerResults ==
    {add_transaction(App, in) : in \in AddTransactionInputs}
        \cup {set_budget_limit(App, in) : in \in SetBudgetLimitInputs}
        \cup {add_saving_goal(App, in) : in \in AddSavingGoalInputs}
        \cup {add_regular_payment(App, in) : in \in AddRegularPaymentInputs}
        \cup {quick_add_income(App, in) : in \in QuickAddInputs}
        \cup {quick_add_expense(App, in) : in \in QuickAddInputs}
        \cup {import_from_csv(App, in) : in \in ImportInputs}

(* C6: whenever a mutating handler has returned after changing a           *)
(* collection and no write has failed, the document holds exactly the      *)
(* four collections as they are in memory.                                 *)
C6_MutationIsPersisted ==
    running =>
        \A r \in HandlerResults :
            (r.store # Store /\ ~r.raised /\ "save_error" \notin r.reported)
                => r.doc = Serialize(r.store)

(* What C7 asks of a handler that reaches save_data: o is its result when  *)
(* the save succeeds, f its result on the same inputs when the save fails. *)
(* The failure is reported and changes nothing else of the result: the     *)
(* collections are those the mutation produced; and the successful save    *)
(* writes the whole of the current collections.                            *)
FailedSaveOnlyReported(o, f) ==
    /\ "save_error" \in f.reported
    /\ "save_error" \notin o.reported
    /\ f.reported \ {"save_error"} = o.reported
    /\ f.store = o.store
    /\ f.raised = o.raised
    /\ o.doc = Serialize(o.store)

(* C7: in every running state, those reached after a failed save          *)
(* included, each mutating handler that reaches save_data reports a        *)
(* failing save and keeps in memory exactly what it keeps when the save    *)
(* succeeds, and a succeeding save writes the complete current             *)
(* collections.                                                            *)
C7_FailedSaveIsReportedAndMemoryKept ==
    running =>
        /\ \A in \in SaveOk(AddTransactionInputs) :
              ParseFloat(in.text).ok =>
                  \A o \in {add_transaction(App, in)},
                     f \in {add_transaction(App, SaveFailing(in))} :
                      FailedSaveOnlyReported(o, f)
        /\ \A in \in SaveOk(SetBudgetLimitInputs) :
              ParseFloat(in.text).ok =>
                  \A o \in {set_budget_limit(App, in)},
                     f \in {set_budget_limit(App, SaveFailing(in))} :
                      FailedSaveOnlyReported(o, f)
        /\ \A in \in SaveOk(AddSavingGoalInputs) :
              ParseFloat(in.text).ok =>
                  \A o \in {add_saving_goal(App, in)},
                     f \in {add_saving_goal(App, SaveFailing(in))} :
                      FailedSaveOnlyReported(o, f)
        /\ \A in \in SaveOk(AddRegularPaymentInputs) :
              ParseFloat(in.text).ok =>
                  \A o \in {add_regular_payment(App, in)},
                     f \in {add_regular_payment(App, SaveFailing(in))} :
                      FailedSaveOnlyReported(o, f)
        /\ \A in \in SaveOk(QuickAddInputs) :
              /\ \A o \in {quick_add_income(App, in)},
                    f \in {quick_add_income(App, SaveFailing(in))} :
                     FailedSaveOnlyReported(o, f)
              /\ \A o \in {quick_add_expense(App, in)},
                    f \in {quick_add_expense(App, SaveFailing(in))} :
                     FailedSaveOnlyReported(o, f)
        /\ \A in \in SaveOk(ImportInputs) :
              (in.file.lines # <<>> /\ ~in.file.fails) =>
                  \A o \in {import_from_csv(App, in)},
                     f \in {import_from_csv(App, SaveFailing(in))} :
                      FailedSaveOnlyReported(o, f)

(* C7 witness: a save has just failed and was reported, the document is    *)
(* lost, the mutation is in memory and the application runs on.            *)
C7_Witness ==
    /\ running
    /\ "save_error" \in reported
    /\ doc = UnparseableDocument
    /\ transactions # <<>>
    /\ saving_goals # <<>>

Malformed(document) ==
    \/ document.kind \in {"unparseable", "nonobject"}
    \/ document.kind = "object" /\ (document.absent # {} \/ document.bad # {})

(* C9: a start on the document as it is now ends thus: the document        *)
(* missing, all four collections empty and nothing reported; the document  *)
(* malformed, the load failure reported, all four collections empty, and   *)
(* the application running.                                                *)
C9_StartupOnMissingOrMalformedDocument ==
    \E s \in {Start(doc)} :
        /\ doc.kind = "missing" =>
              s.store = EmptyStore /\ s.reported = {} /\ s.running
        /\ Malformed(doc) =>
              s.store = EmptyStore /\ "load_error" \in s.reported /\ s.running

(* C10: while the collections are well shaped (the wrongly shaped document *)
(* is the case of C9), no operation, a restart on the saved document       *)
(* included, ends in an unhandled exception.                               *)
C10_NoUnhandledException == badShape = {} => ~unhandled

(* The positions of the transactions of a type, and of a type and a        *)
(* category; the sum of the amounts at a set of positions. *)
PositionsOf(type) == {i \in 1..Len(transactions) : transactions[i].type = type}

PositionsOfCategory(type, category) ==
    {i \in PositionsOf(type) : transactions[i].category = category}

RECURSIVE AmountAt(_)
AmountAt(positions) ==
    IF positions = {} THEN 0
    ELSE LET i == CHOOSE j \in positions : TRUE
         IN transactions[i].amount + AmountAt(positions \ {i})

(* The sum of a field over the items of a sequence of two-field items. *)
RECURSIVE TotalAmount(_)
TotalAmount(items) ==
    IF items = <<>> THEN 0 ELSE Head(items).amount + TotalAmount(Tail(items))

(* C11: the balance of calculate_balance, and the balance update_dashboard *)
(* shows, are the sum of the amounts of the Income transactions minus the  *)
(* sum of the amounts of the Expense transactions of the whole list.       *)
C11_BalanceIsIncomeMinusExpense ==
    badShape = {} =>
        /\ calculate_balance(transactions)
              = AmountAt(PositionsOf("Income")) - AmountAt(PositionsOf("Expense"))
        /\ update_dashboard(transactions).balance
              = AmountAt(PositionsOf("Income")) - AmountAt(PositionsOf("Expense"))
        /\ update_dashboard(transactions).total_income
              = AmountAt(PositionsOf("Income"))
        /\ update_dashboard(transactions).total_expense
              = AmountAt(PositionsOf("Expense"))

(* C11 witness: the list holds an income and a transaction of a type that  *)
(* is neither an income nor an expense.                                    *)
C11_Witness ==
    /\ PositionsOf("Income") # {}
    /\ PositionsOf("Transfer") # {}
    /\ calculate_balance(transactions) > 0

(* C12: the expense breakdown of update_pie_charts has one entry for each  *)
(* category that occurs in an Expense transaction and no other entry, the  *)
(* entry of a category is the sum of the Expense transactions of that      *)
(* category, and the entries add up to the total expense of                *)
(* update_dashboard.                                                       *)
C12_ExpenseBreakdownMatchesTotal ==
    badShape = {} =>
        \A e \in {expense_categories(transactions, Len(transactions))} :
            /\ \A i, j \in 1..Len(e) : e[i].category = e[j].category => i = j
            /\ {e[i].category : i \in 1..Len(e)}
                  = {transactions[i].category : i \in PositionsOf("Expense")}
            /\ \A i \in 1..Len(e) :
                  e[i].amount
                      = AmountAt(PositionsOfCategory("Expense", e[i].category))
            /\ TotalAmount(e) = update_dashboard(transactions).total_expense

(* C12 witness: two expenses of one category, so that an entry is a sum.   *)
C12_Witness ==
    /\ Len(expense_categories(transactions, Len(transactions))) = 1
    /\ Cardinality(PositionsOf("Expense")) = 2

(* The month YYYY-MM of a stored date. *)
MonthOf(date) == SubSeq(date, 1, 7)

(* C13: update_chart returns a series with one entry for each month that   *)
(* occurs in the list, in strictly ascending order of the months, the      *)
(* income and the expense of an entry being the sums of the Income and of  *)
(* the Expense transactions dated in its month, and the expenses of all    *)
(* entries adding up to the total expense of update_dashboard.             *)
C13_MonthlySeriesMatchesTransactions ==
    badShape = {} =>
        \A c \in {update_chart(transactions)} :
            /\ ~c.raised
            /\ {c.series[i].month : i \in 1..Len(c.series)}
                  = {MonthOf(transactions[i].date) : i \in 1..Len(transactions)}
            /\ \A i \in 1..(Len(c.series) - 1) :
                  TextLess(c.series[i].month, c.series[i + 1].month, 1)
            /\ \A i \in 1..Len(c.series) :
                  /\ c.series[i].income
                        = AmountAt({j \in PositionsOf("Income") :
                              MonthOf(transactions[j].date) = c.series[i].month})
                  /\ c.series[i].expense
                        = AmountAt({j \in PositionsOf("Expense") :
                              MonthOf(transactions[j].date) = c.series[i].month})
            /\ \A e \in {[i \in 1..Len(c.series) |->
                            [amount |-> c.series[i].expense]]} :
                  TotalAmount(e) = update_dashboard(transactions).total_expense

(* A line import_from_csv keeps: five parts or more and a fourth part that *)
(* parses; the transaction the claims expect of it. *)
KeptLine(parts) == Len(parts) >= 5 /\ ParseFloat(parts[4]).ok

RowOf(parts) ==
    [type |-> parts[2], category |-> parts[3],
     amount |-> ParseFloat(parts[4]).value, date |-> parts[1],
     description |-> <<parts[5]>>]

ExpectedRows(file) ==
    LET kept == SelectSeq(Tail(file.lines), KeptLine)
    IN [i \in 1..Len(kept) |-> RowOf(kept[i])]

(* The files that are read to their end. *)
ReadableImports ==
    {in \in LedgerImportInputs : in.file.lines # <<>> /\ ~in.file.fails}

(* C15: import_from_csv of a file that is read to its end skips the first  *)
(* line, the lines of fewer than 5 parts and the lines whose amount does   *)
(* not parse, appends one transaction for each other line, in the order    *)
(* of the file and with the parts of the line, and reports a count that    *)
(* is the number of transactions it appended.                              *)
C15_ImportAppendsKeptRowsAndReportsCount ==
    running =>
        \A in \in ReadableImports :
            \A r \in {import_from_csv(App, in)} :
                /\ r.store.transactions = transactions \o ExpectedRows(in.file)
                /\ "notification" \in r.reported
                /\ imported_count(in.file)
                      = Len(r.store.transactions) - Len(transactions)

(* A row whose date is a valid YYYY-MM-DD date and whose type is one of    *)
(* the two. *)
WellFormedRow(t) == StrptimeOk(t.date) /\ t.type \in TransactionTypes

(* C16: import_from_csv does not append a row whose date is not a valid    *)
(* date or whose type is neither Income nor Expense, and goes on with the  *)
(* next row: what it appends are the kept rows that are well formed.       *)
C16_ImportSkipsMalformedRows ==
    running =>
        \A in \in ReadableImports :
            \A r \in {import_from_csv(App, in)} :
                r.store.transactions
                    = transactions \o SelectSeq(ExpectedRows(in.file), WellFormedRow)

(* The transactions the document holds. *)
Persisted(document) == load_data(document).store.transactions

(* C17: when the memory and the document agreed before it and the save     *)
(* does not fail, import_from_csv returns, normally or after a failed      *)
(* read, with the transaction list in memory equal to the persisted one.   *)
C17_ImportLeavesMemoryAndDocumentEqual ==
    (running /\ Persisted(doc) = transactions) =>
        \A in \in LedgerImportInputs :
            \A r \in {import_from_csv(App, in)} :
                Persisted(r.doc) = r.store.transactions

(* a is a prefix of b. *)
IsPrefix(a, b) == Len(a) <= Len(b) /\ SubSeq(b, 1, Len(a)) = a

(* C18: whatever handler runs, on whatever inputs, the transaction list it *)
(* leaves starts with the list as it was: no transaction is removed,       *)
(* moved or changed, and the length does not decrease.                     *)
C18_TransactionsAreAppendOnly ==
    running =>
        /\ \A r \in HandlerResults : IsPrefix(transactions, r.store.transactions)
        /\ \A in \in LedgerImportInputs :
              IsPrefix(transactions, import_from_csv(App, in).store.transactions)

(* C18 witness: two different transactions are stored, the second just     *)
(* recorded after the first.                                               *)
C18_Witness ==
    /\ running
    /\ Len(transactions) = 2
    /\ transactions[1] # transactions[2]
    /\ "notification" \in reported

(* The categories that have a limit, and the limits an item list holds for *)
(* a category. *)
LimitKeys(limits) == {limits[i].category : i \in 1..Len(limits)}

LimitsOf(limits, category) ==
    {limits[i].limit : i \in {j \in 1..Len(limits) : limits[j].category = category}}

(* C14: update_budget_limits_table has one row for each category with a    *)
(* limit and no two rows of one category; the spent value of a row is the  *)
(* sum of the amounts of all Expense transactions of its category, 0 when  *)
(* there are none, and the row is marked over its limit exactly when spent *)
(* is greater than the limit, not when it equals it.                       *)
C14_BudgetUtilizationRows ==
    (running /\ badShape = {}) =>
        \A rows \in {update_budget_limits_table(budget_limits, transactions)} :
            /\ Len(rows) = Cardinality(LimitKeys(budget_limits))
            /\ \A i, j \in 1..Len(rows) :
                  rows[i].category = rows[j].category => i = j
            /\ \A i \in 1..Len(rows) :
                  /\ rows[i].category = budget_limits[i].category
                  /\ rows[i].limit = budget_limits[i].limit
                  /\ rows[i].spent
                        = AmountAt(PositionsOfCategory("Expense", rows[i].category))
                  /\ rows[i].over <=> rows[i].spent > rows[i].limit

(* C14 witness: two categories have a limit, one has no expense, and the   *)
(* expenses of the other, two transactions, add up to exactly its limit.   *)
C14_Witness ==
    /\ running
    /\ Len(budget_limits) = 2
    /\ \E i, j \in 1..Len(budget_limits) :
          /\ Cardinality(PositionsOfCategory("Expense", budget_limits[i].category)) = 2
          /\ AmountAt(PositionsOfCategory("Expense", budget_limits[i].category))
                = budget_limits[i].limit
          /\ PositionsOfCategory("Expense", budget_limits[j].category) = {}

(* C19: no category has two limits; set_budget_limit with an amount that   *)
(* parses leaves the chosen category with exactly that limit, whatever it  *)
(* was, every other category with the limit it had, and no category more   *)
(* than the chosen one; and no handler, on any inputs, leaves fewer        *)
(* categories with a limit than there were.                                *)
C19_OneLimitPerCategory ==
    running =>
        /\ \A i, j \in 1..Len(budget_limits) :
              budget_limits[i].category = budget_limits[j].category => i = j
        /\ \A in \in PlanLimitInputs :
              \A r \in {set_budget_limit(App, in)} :
                  LET c == CurrentText(budget_categories.Expense, in.pick)
                      after == r.store.budget_limits
                  IN ParseFloat(in.text).ok =>
                        /\ LimitsOf(after, c) = {ParseFloat(in.text).value}
                        /\ Cardinality({i \in 1..Len(after) : after[i].category = c}) = 1
                        /\ LimitKeys(after) = LimitKeys(budget_limits) \cup {c}
                        /\ \A k \in LimitKeys(budget_limits) \ {c} :
                              LimitsOf(after, k) = LimitsOf(budget_limits, k)
        /\ \A r \in HandlerResults :
              LimitKeys(budget_limits) \subseteq LimitKeys(r.store.budget_limits)

(* C19 witness: two categories have different limits, the first in the     *)
(* list being the first category, and the last action has set a limit.     *)
C19_Witness ==
    /\ running
    /\ Len(budget_limits) = 2
    /\ budget_limits[1].category = "Food"
    /\ budget_limits[1].limit = 300
    /\ budget_limits[2].limit = 100
    /\ "notification" \in reported
    /\ transactions = <<>>
    /\ saving_goals = <<>>

(* C20: every stored goal has saved 0, update_goals_table shows a progress *)
(* of 0 in the behind band for it, a goal of amount 0 included, and no     *)
(* handler, on any inputs, changes a stored goal or adds one with saved    *)
(* other than 0.                                                           *)
C20_GoalsStayUnsaved ==
    (running /\ badShape = {}) =>
        /\ \A i \in 1..Len(saving_goals) : saving_goals[i].saved = 0
        /\ \A rows \in {update_goals_table(saving_goals)} :
              /\ Len(rows) = Len(saving_goals)
              /\ \A i \in 1..Len(rows) :
                    rows[i].progress = 0 /\ rows[i].band = "behind"
        /\ \A r \in HandlerResults
                      \cup {add_saving_goal(App, in) : in \in PlanGoalInputs} :
              /\ IsPrefix(saving_goals, r.store.saving_goals)
              /\ \A i \in 1..Len(r.store.saving_goals) :
                    r.store.saving_goals[i].saved = 0

(* C20 witness: a goal of amount 0 has just been added.                    *)
C20_Witness ==
    /\ running
    /\ Len(saving_goals) = MaxGoals
    /\ saving_goals[Len(saving_goals)].amount = 0
    /\ "notification" \in reported

(* C21: add_regular_payment with an amount that parses appends exactly one *)
(* payment, with last_paid None, and leaves the transactions, the limits   *)
(* and the goals as they were; every stored payment has last_paid None;    *)
(* and no handler, on any inputs, changes or removes a stored payment.     *)
C21_RegularPaymentsAreInert ==
    (running /\ badShape = {}) =>
        /\ \A i \in 1..Len(regular_payments) : regular_payments[i].last_paid = PyNone
        /\ \A in \in AddRegularPaymentInputs :
              \A r \in {add_regular_payment(App, in)} :
                  ParseFloat(in.text).ok =>
                      /\ Len(r.store.regular_payments) = Len(regular_payments) + 1
                      /\ IsPrefix(regular_payments, r.store.regular_payments)
                      /\ r.store.regular_payments[Len(regular_payments) + 1].last_paid
                            = PyNone
                      /\ r.store.transactions = transactions
                      /\ r.store.budget_limits = budget_limits
                      /\ r.store.saving_goals = saving_goals
        /\ \A r \in HandlerResults :
              IsPrefix(regular_payments, r.store.regular_payments)

(* C21 witness: a payment has just been added and is stored, and a         *)
(* transaction is stored beside it.                                        *)
C21_Witness ==
    /\ running
    /\ regular_payments # <<>>
    /\ transactions # <<>>
    /\ doc = Serialize(Store)
    /\ "notification" \in reported

(* The types and categories of the stored transactions. *)
StoredKinds ==
    {<<transactions[i].type, transactions[i].category>> : i \in 1..Len(transactions)}

(* How many times t occurs in a sequence. *)
Occurrences(items, t) == Cardinality({i \in 1..Len(items) : items[i] = t})

(* C22: for every type and category, show_category_transactions lists     *)
(* every stored transaction of that type and category, as many times as it *)
(* is stored and nothing else, in descending order of the dates.           *)
C22_DrillDownListsAllByDateDescending ==
    (running /\ badShape = {}) =>
        \A kind \in StoredKinds :
            \A shown \in {show_category_transactions(transactions, kind[1], kind[2])} :
                /\ \A i \in PositionsOfCategory(kind[1], kind[2]) :
                      Occurrences(shown, transactions[i])
                          = Occurrences(transactions, transactions[i])
                /\ \A i \in 1..Len(shown) :
                      Occurrences(transactions, shown[i]) > 0
                /\ \A i \in 1..(Len(shown) - 1) :
                      ~TextLess(shown[i].date, shown[i + 1].date, 1)

(* The first calendar day of a period at the time now. *)
FirstDay(period, now) ==
    IF period = "Month" THEN [y |-> now.y, m |-> now.m, d |-> 1]
    ELSE [y |-> now.y, m |-> 1, d |-> 1]

(* The positions of the transactions a period covers at the time now. *)
InPeriod(period, now) ==
    {i \in 1..Len(transactions) :
        period = "All time"
            \/ DayOrder(strptime(transactions[i].date)) >= DayOrder(FirstDay(period, now))}

(* All stored transactions have a date that parses and one of the two      *)
(* types. *)
WellFormedLedger ==
    \A i \in 1..Len(transactions) :
        StrptimeOk(transactions[i].date) /\ transactions[i].type \in TransactionTypes

(* C23: on a list of transactions with valid dates and types, the series   *)
(* of update_stats has, for every period and every time of the clock, one  *)
(* entry for each date of the transactions of the period, the first day of *)
(* the month or the year included, with the sums of the Income and of the  *)
(* Expense amounts of that date.                                           *)
C23_StatsCoverThePeriodFromItsFirstDay ==
    (running /\ badShape = {} /\ WellFormedLedger) =>
        \A period \in Periods : \A now \in Nows :
            \A stats \in {update_stats(transactions, period, now)} :
                /\ ~stats.raised
                /\ {stats.series[k].date : k \in 1..Len(stats.series)}
                      = {Midnight(strptime(transactions[i].date)) :
                            i \in InPeriod(period, now)}
                /\ \A k \in 1..Len(stats.series) :
                      LET same == {i \in InPeriod(period, now) :
                                      Midnight(strptime(transactions[i].date))
                                          = stats.series[k].date}
                      IN /\ stats.series[k].income
                               = AmountAt(same \cap PositionsOf("Income"))
                         /\ stats.series[k].expense
                               = AmountAt(same \cap PositionsOf("Expense"))

(* The inputs of a query that differ from in at most by the clock. *)
AtAnotherTime(in) == {[in EXCEPT !.now = now] : now \in Nows}

C25_ExportWritesOneRowPerTransaction ==
    (running /\ badShape = {}) =>
        \A in \in ExportInputs :
            \A r \in {export_to_csv(App, in)} :
                /\ r.store = Store
                /\ r.doc = doc
                /\ in.outcome = "ok" =>
                      /\ Len(r.file) = Len(transactions) + 1
                      /\ r.file[1] = HeaderLine
                      /\ \A i \in 1..Len(transactions) :
                            LET row == r.file[i + 1]
                                t == transactions[i]
                            IN /\ Len(row) >= 5
                               /\ row[1] = t.date
                               /\ row[2] = t.type
                               /\ row[3] = t.category
                               /\ ParseFloat(row[4]) = [ok |-> TRUE, value |-> t.amount]
                               /\ Len(row[4]) >= 4 /\ row[4][Len(row[4]) - 2] = "."
                               /\ SubSeq(row, 5, Len(row)) = t.description

(* C25 witness: two different transactions are stored and the export has   *)
(* just written them.                                                      *)
C25_Witness ==
    /\ running
    /\ Len(transactions) = 2
    /\ transactions[1] # transactions[2]
    /\ reported = {"exported"}

(* C29: importing the file export_to_csv writes from the stored            *)
(* transactions appends one transaction for each of them, in the same      *)
(* order and equal to it in type, category, amount, date and description.  *)
C29_ExportImportRoundTrip ==
    (running /\ badShape = {}) =>
        \A r \in {import_from_csv(App, [file |-> ExportedFile, outcome |-> "ok"])} :
            r.store.transactions = transactions \o transactions

(* C26: between operations the budget limits table shows, for every        *)
(* category with a limit, the limit and the sum of the Expense amounts of  *)
(* the category as the collections now hold them.                          *)
C26_BudgetTableIsNeverStale ==
    (running /\ ~unhandled /\ badShape = {}) =>
        budget_limits_table = update_budget_limits_table(budget_limits, transactions)

(* C27: whatever handler runs and whether its save fails or not, the       *)
(* document it leaves is the document as it was or the complete new state  *)
(* of the collections.                                                     *)
C27_SaveIsAtomic ==
    (running /\ badShape = {}) =>
        \A r \in HandlerResults : r.doc \in {doc, Serialize(r.store)}

(* C28: an import that reports a failure leaves the transactions and the   *)
(* document as they were, and an import that appended transactions and     *)
(* saved them reports its success.                                         *)
C28_ImportFailureLeavesNoTrace ==
    (running /\ badShape = {}) =>
        \A in \in LedgerImportInputs :
            \A r \in {import_from_csv(App, in)} :
                /\ "import_error" \in r.reported =>
                      (r.store.transactions = transactions /\ r.doc = doc)
                /\ (r.store.transactions # transactions /\ r.doc = Serialize(r.store))
                      => "notification" \in r.reported

(* The program has just started and load_data has reported a failure. *)
StartedOnUnreadableDocument == running /\ reported = {"load_error"}

(* The results of the handlers that changed a collection, saved it and     *)
(* reported their success. *)
SuccessfulMutations ==
    {r \in HandlerResults :
        /\ r.store # Store
        /\ ~r.raised
        /\ r.reported = {"notification"}}

(* C30: after a start on a document that could not be read the document    *)
(* is still the unreadable one and the collections are empty; any handler  *)
(* that then mutates and saves with success leaves a document that holds   *)
(* exactly its collections, the four of them, and reads back as them.      *)
C30_FirstSaveReplacesUnreadableDocument ==
    StartedOnUnreadableDocument =>
        /\ doc.kind \in {"unparseable", "nonobject"}
        /\ Store = EmptyStore
        /\ \A r \in SuccessfulMutations :
              /\ r.doc = Serialize(r.store)
              /\ r.doc.kind = "object" /\ r.doc.absent = {}
              /\ load_data(r.doc) = [store |-> r.store, reported |-> {}]

(* C30 witness: the program has started on a document that cannot be       *)
(* parsed, and a handler records a transaction and saves it.               *)
C30_Witness ==
    /\ StartedOnUnreadableDocument
    /\ doc = UnparseableDocument
    /\ \E r \in SuccessfulMutations :
          r.store.transactions # <<>> /\ r.doc = Serialize(r.store)

====
